---- MODULE Spec2Model ----
(***************************************************************************)
(* Tiered pricing engine: the product_price_tiers table with its backstop  *)
(* trigger, the atomic replace function update_product_price_tiers, the    *)
(* direct row writers of the client library, the client-side validator     *)
(* validateTiers and the product pages that save tiers.                    *)
(*                                                                         *)
(* Database semantics assumed for the SQL: a function call runs in one     *)
(* transaction whose writes become visible to other sessions only at       *)
(* commit; a PL/pgSQL block with an EXCEPTION clause is a subtransaction   *)
(* that is rolled back (rows, catalog changes and locks) when an error     *)
(* reaches its handler; ALTER TABLE ... ENABLE/DISABLE TRIGGER is          *)
(* transactional and takes a table lock that excludes concurrent row       *)
(* writers and other ALTER TABLEs, but not readers.                        *)
(***************************************************************************)
EXTENDS Integers, Sequences, FiniteSets, TLC

\* ------------------------------------------------------------------ bounds
MaxTiers == 2

MaxId == 4

\* the largest quantity a shopper selects
MaxQuantity == 5

\* the most tiers the manager is opened with
MaxListed == 3

\* ------------------------------------------------------- program constants
\* COALESCE(max_quantity, 999999) in the overlap checks of the store
UnboundedMax == 999999

\* SQL NULL / JSON null / TypeScript null for max_quantity and
\* discounted_unit_price (quantities and prices are never negative here)
NULL == 0 - 1

Products == {"p1", "p2"}

Sessions == {"s1", "s2"}

NoSession == "none"

Ids == 1..MaxId

\* ---------------------------------------------------------- input domains
MinQuantities == {1, 3}

MaxQuantities == {NULL, 2}

Tier(mn, mx, up, dp) ==
  [min_quantity |-> mn, max_quantity |-> mx,
   unit_price |-> up, discounted_unit_price |-> dp]

\* every small range at the regular price, one bounded range above the
\* store's 999999, and every price shape on the range 1+
TierPool ==
  {Tier(mn, mx, 2, NULL) : mn \in MinQuantities, mx \in MaxQuantities}
    \cup {Tier(UnboundedMax + 1, UnboundedMax + 2, 2, NULL)}
    \cup {Tier(1, NULL, 0, NULL), Tier(1, NULL, 2, 1), Tier(1, NULL, 2, 2)}

\* the lists two concurrent callers choose from
ConcPool == {Tier(1, 2, 2, NULL), Tier(1, NULL, 2, NULL), Tier(3, NULL, 2, NULL)}

SeqsUpTo(S, n) == UNION {[1..k -> S] : k \in 0..n}

TierLists == SeqsUpTo(TierPool, MaxTiers)

ConcLists == SeqsUpTo(ConcPool, MaxTiers)

VARIABLES
  rows,            \* committed rows of product_price_tiers
  trigger_enabled, \* committed state of validate_price_tiers_trigger
  table_lock,      \* session holding the ALTER TABLE lock, or NoSession
  pc,              \* position of each session in update_product_price_tiers
  p_product_id,    \* argument of the running call
  p_tiers,         \* argument of the running call
  tx_rows,         \* the table as the session's open transaction sees it
  tx_trigger,      \* the trigger as the session's open transaction sees it
  inserted_tiers,  \* rows inserted so far, the value the call returns
  result,          \* outcome of the last call of each session
  products,        \* the products table: existence, price, has_tiered_pricing
  page,            \* the dashboard page that is open: "none", "edit", "create"
  pageProductId,   \* the product the open page edits or has created
  pagePc,          \* position of the page inside onSubmit ("form" outside)
  pricingMode,     \* useState pricingMode: "simple" or "tiered"
  priceTiers,      \* useState priceTiers
  price,           \* the form's price field
  featured_offer_price, \* the form's promotional price field
  showConfirmDialog, \* PricingModeToggle state
  pendingMode,     \* PricingModeToggle state: NoMode, TRUE or FALSE
  rows_at_submit,  \* the tier table when the running save started
  viewedTiers,     \* the tiers the storefront loaded for the product on view
  viewedPrice,     \* product.price of the product on view
  viewedDiscountedPrice, \* product.discounted_price of the product on view
  calculatorQuantity, \* TieredPricingTable state
  calculatorResult,   \* TieredPricingTable: what the calculator shows
  modalQuantity,   \* ProductVariantModal state quantity
  pricingInfo,     \* ProductVariantModal: the result the modal prices with
  addedToCart      \* the quantity and unit price of the last addToCart call

storeVars == <<rows, trigger_enabled, table_lock>>

sessionVars == <<pc, p_product_id, p_tiers, tx_rows, tx_trigger, inserted_tiers, result>>

pageVars == <<products, page, pageProductId, pagePc, pricingMode, priceTiers, price,
              showConfirmDialog, pendingMode, rows_at_submit, featured_offer_price>>

shopVars == <<viewedTiers, viewedPrice, viewedDiscountedPrice, calculatorQuantity,
              calculatorResult, modalQuantity, pricingInfo, addedToCart>>

vars == <<rows, trigger_enabled, table_lock, pc, p_product_id, p_tiers, tx_rows,
          tx_trigger, inserted_tiers, result, products, page, pageProductId,
          pagePc,
          pricingMode, priceTiers, price, showConfirmDialog, pendingMode,
          rows_at_submit, featured_offer_price, viewedTiers, viewedPrice, viewedDiscountedPrice,
          calculatorQuantity, calculatorResult, modalQuantity, pricingInfo, addedToCart>>

\* --------------------------------------------------------------- the table
Row(id, p, t) ==
  [id |-> id, product_id |-> p, min_quantity |-> t.min_quantity,
   max_quantity |-> t.max_quantity, unit_price |-> t.unit_price,
   discounted_unit_price |-> t.discounted_unit_price]

TierOf(r) == Tier(r.min_quantity, r.max_quantity, r.unit_price, r.discounted_unit_price)

ProductRows(R, p) == {r \in R : r.product_id = p}

RowIds(R) == {r.id : r \in R}

Coalesce(v, d) == IF v = NULL THEN d ELSE v

\* ids are generated by the table; a new id differs from every id in use
UsedIds == RowIds(rows) \cup UNION {RowIds(tx_rows[s]) : s \in Sessions}

HasFreshId == Ids \ UsedIds # {}

FreshId == CHOOSE i \in Ids \ UsedIds : \A j \in Ids \ UsedIds : i <= j

\* ------------------------------------------- the checks the store performs
NullMaxCount(R, p) == Cardinality({r \in ProductRows(R, p) : r.max_quantity = NULL})

HasOverlaps(R, p) ==
  \E t1 \in ProductRows(R, p) : \E t2 \in ProductRows(R, p) :
    /\ t1.id # t2.id
    /\ t1.min_quantity <= Coalesce(t2.max_quantity, UnboundedMax)
    /\ Coalesce(t1.max_quantity, UnboundedMax) >= t2.min_quantity

HasInvalidRange(R, p) ==
  \E r \in ProductRows(R, p) :
    r.max_quantity # NULL /\ r.min_quantity >= r.max_quantity

\* unit_price <= 0 OR discounted_unit_price <= 0 (a NULL discount compares
\* unknown, which selects no row)
HasNonPositivePrice(R, p) ==
  \E r \in ProductRows(R, p) :
    r.unit_price <= 0 \/ (r.discounted_unit_price # NULL /\ r.discounted_unit_price <= 0)

HasInvalidDiscount(R, p) ==
  \E r \in ProductRows(R, p) :
    r.discounted_unit_price # NULL /\ r.discounted_unit_price >= r.unit_price

\* update_product_price_tiers, "Now manually validate just this product":
\* the first check that raises, or "ok"
ManualValidation(R, p) ==
  IF ProductRows(R, p) = {} THEN "no_tiers"
  ELSE IF NullMaxCount(R, p) > 1 THEN "unlimited_max"
  ELSE IF HasOverlaps(R, p) THEN "overlap"
  ELSE IF HasInvalidRange(R, p) THEN "min_max"
  ELSE IF HasNonPositivePrice(R, p) THEN "price"
  ELSE IF HasInvalidDiscount(R, p) THEN "discount"
  ELSE "ok"

\* validate_all_price_tiers_for_product: the loop body for one product
TriggerProductOk(R, p) ==
  \/ ProductRows(R, p) = {}
  \/ /\ ~(NullMaxCount(R, p) > 1)
     /\ ~HasOverlaps(R, p)
     /\ ~HasInvalidRange(R, p)
     /\ ~HasNonPositivePrice(R, p)
     /\ ~HasInvalidDiscount(R, p)

\* validate_all_price_tiers_for_product: every product that has rows
TriggerAccepts(R) == \A p \in {r.product_id : r \in R} : TriggerProductOk(R, p)

\* a statement on product_price_tiers leaving the table as R: the AFTER ...
\* FOR EACH STATEMENT trigger runs when enabled and raises when it rejects
StatementOk(R, enabled) == enabled => TriggerAccepts(R)

\* ------------------------------------------- validateTiers (the client)
\* [...tiers].sort((a, b) => a.min_quantity - b.min_quantity): a stable sort
RECURSIVE InsertSorted(_, _)
InsertSorted(sorted, t) ==
  IF sorted = <<>> THEN <<t>>
  ELSE IF sorted[Len(sorted)].min_quantity <= t.min_quantity
       THEN Append(sorted, t)
       ELSE Append(InsertSorted(SubSeq(sorted, 1, Len(sorted) - 1), t), sorted[Len(sorted)])

RECURSIVE SortByMinQuantity(_)
SortByMinQuantity(tiers) ==
  IF tiers = <<>> THEN <<>>
  ELSE InsertSorted(SortByMinQuantity(SubSeq(tiers, 1, Len(tiers) - 1)), tiers[Len(tiers)])

\* an error without tierIndex
NoIndex == 0 - 1

\* errors.push({type, message, tierIndex}) when the condition holds; the
\* message is kept as its template and the numbers it interpolates
ErrorIf(cond, type, tierIndex, template, a, b) ==
  IF cond
  THEN <<[type |-> type, tierIndex |-> tierIndex, message |-> <<template, a, b>>]>>
  ELSE <<>>

\* tier.min_quantity <= otherMax && tierMax >= otherTier.min_quantity, with
\* max_quantity ?? Infinity
RangesOverlap(tier, otherTier) ==
  /\ (otherTier.max_quantity = NULL \/ tier.min_quantity <= otherTier.max_quantity)
  /\ (tier.max_quantity = NULL \/ tier.max_quantity >= otherTier.min_quantity)

\* OverlapErrors comparing a tier with the tier that follows it only
OverlapErrorsAdjacent(sortedTiers, i, j) ==
  IF j > Len(sortedTiers) THEN <<>>
  ELSE ErrorIf(RangesOverlap(sortedTiers[i], sortedTiers[j]),
               "overlap", i - 1, "overlap", i, j)

\* for (let j = i + 1; j < sortedTiers.length; j++): i, j are 1-based here
RECURSIVE OverlapErrors(_, _, _)
OverlapErrors(sortedTiers, i, j) ==
  IF j > Len(sortedTiers) THEN <<>>
  ELSE ErrorIf(RangesOverlap(sortedTiers[i], sortedTiers[j]),
               "overlap", i - 1, "overlap", i, j)
         \o OverlapErrors(sortedTiers, i, j + 1)

\* the body of for (let i = 0; i < sortedTiers.length; i++)
TierErrors(sortedTiers, i) ==
  LET tier == sortedTiers[i] IN
    ErrorIf(tier.min_quantity <= 0, "invalid_min", i - 1, "min_positive", i, 0)
    \o ErrorIf(tier.max_quantity # NULL /\ tier.max_quantity <= tier.min_quantity,
               "invalid_max", i - 1, "max_above_min", i, 0)
    \o ErrorIf(tier.unit_price <= 0, "invalid_price", i - 1, "price_positive", i, 0)
    \o ErrorIf(tier.discounted_unit_price # NULL /\ tier.discounted_unit_price <= 0,
               "invalid_discount", i - 1, "discount_positive", i, 0)
    \o ErrorIf(tier.discounted_unit_price # NULL
                 /\ tier.discounted_unit_price >= tier.unit_price,
               "invalid_discount", i - 1, "discount_below_price", i, 0)
    \o OverlapErrors(sortedTiers, i, i + 1)
    \o ErrorIf(i < Len(sortedTiers) /\ tier.max_quantity # NULL
                 /\ sortedTiers[IF i < Len(sortedTiers) THEN i + 1 ELSE i].min_quantity
                      # tier.max_quantity + 1,
               "gap", i - 1, "gap", i, i + 1)

RECURSIVE LoopErrors(_, _)
LoopErrors(sortedTiers, i) ==
  IF i > Len(sortedTiers) THEN <<>>
  ELSE TierErrors(sortedTiers, i) \o LoopErrors(sortedTiers, i + 1)

\* validateTiers without its count of unlimited tiers
validateTiersUncounted(tiersToValidate) ==
  IF Len(tiersToValidate) = 0 THEN <<>>
  ELSE LET sortedTiers == SortByMinQuantity(tiersToValidate)
       IN ErrorIf(sortedTiers[1].min_quantity # 1, "invalid_min", 0, "first_starts_at_1", 0, 0)
          \o LoopErrors(sortedTiers, 1)

validateTiers(tiersToValidate) ==
  IF Len(tiersToValidate) = 0 THEN <<>>
  ELSE LET sortedTiers == SortByMinQuantity(tiersToValidate)
           nullMaxCount == Cardinality({k \in 1..Len(sortedTiers) :
                                          sortedTiers[k].max_quantity = NULL})
       IN ErrorIf(sortedTiers[1].min_quantity # 1, "invalid_min", 0, "first_starts_at_1", 0, 0)
          \o LoopErrors(sortedTiers, 1)
          \o ErrorIf(nullMaxCount > 1, "invalid_max", NoIndex, "one_unlimited", 0, 0)

\* ------------------------------------------------------------------- Init
\* a product id no row of products uses yet
NoProduct ==
  [exists |-> FALSE, price |-> 0, featured_offer_price |-> NULL,
   has_tiered_pricing |-> FALSE]

\* pendingMode = null
NoMode == "null"

\* a table a store with the trigger in place can hold
InitialRows ==
  { {},
    {Row(1, "p1", Tier(1, 2, 2, NULL)), Row(2, "p1", Tier(3, NULL, 2, NULL))} }

\* appliedTier / nextTier = null
NullTier == Tier(NULL, NULL, NULL, NULL)

\* pricingInfo = null; the calculator before TieredPricingTable renders one
NoResult ==
  [unitPrice |-> NULL, totalPrice |-> NULL, appliedTier |-> NullTier,
   savings |-> NULL, nextTier |-> NullTier, nextTierSavings |-> NULL,
   unitsToNextTier |-> NULL]

\* addToCart has not been called
NoCartItem == [quantity |-> 0, unitPrice |-> NULL]

\* the store before any request
StoreInit ==
  /\ rows \in InitialRows
  /\ trigger_enabled = TRUE
  /\ table_lock = NoSession
  /\ pc = [s \in Sessions |-> "idle"]
  /\ p_product_id = [s \in Sessions |-> "p1"]
  /\ p_tiers = [s \in Sessions |-> <<>>]
  /\ tx_rows = [s \in Sessions |-> {}]
  /\ tx_trigger = [s \in Sessions |-> TRUE]
  /\ inserted_tiers = [s \in Sessions |-> <<>>]
  /\ result = [s \in Sessions |-> "none"]
  /\ products = [p \in Products |->
                   IF p = "p1"
                   THEN [exists |-> TRUE,
                         price |-> IF ProductRows(rows, p) = {} THEN 2 ELSE 0,
                         featured_offer_price |-> NULL,
                         has_tiered_pricing |-> ProductRows(rows, p) # {}]
                   ELSE NoProduct]

\* the dashboard with no page open
BackOfficeInit ==
  /\ StoreInit
  /\ page = "none"
  /\ pageProductId = "none"
  /\ pagePc = "form"
  /\ pricingMode = "simple"
  /\ priceTiers = <<>>
  /\ price = 0
  /\ featured_offer_price = NULL
  /\ showConfirmDialog = FALSE
  /\ pendingMode = NoMode
  /\ rows_at_submit = {}

\* no storefront component is mounted
Init ==
  /\ BackOfficeInit
  /\ viewedTiers = <<>>
  /\ viewedPrice = 0
  /\ viewedDiscountedPrice = NULL
  /\ calculatorQuantity = 1
  /\ calculatorResult = NoResult
  /\ modalQuantity = 1
  /\ pricingInfo = NoResult
  /\ addedToCart = NoCartItem

\* ------------------------------------------- update_product_price_tiers
\* An error raised inside the function body reaches its EXCEPTION handler:
\* the block's changes (rows, trigger state, lock) are rolled back first.
RaiseInBlock(s, message) ==
  /\ pc' = [pc EXCEPT ![s] = "handler"]
  /\ result' = [result EXCEPT ![s] = message]
  /\ tx_rows' = [tx_rows EXCEPT ![s] = {}]
  /\ tx_trigger' = [tx_trigger EXCEPT ![s] = trigger_enabled]
  /\ inserted_tiers' = [inserted_tiers EXCEPT ![s] = <<>>]
  /\ table_lock' = IF table_lock = s THEN NoSession ELSE table_lock

\* Call with the input check left out
CallUnchecked(s, p, T) ==
  /\ pc[s] = "idle"
  /\ p_product_id' = [p_product_id EXCEPT ![s] = p]
  /\ p_tiers' = [p_tiers EXCEPT ![s] = T]
  /\ pc' = [pc EXCEPT ![s] = "disable_trigger"]
  /\ result' = [result EXCEPT ![s] = "running"]
  /\ inserted_tiers' = [inserted_tiers EXCEPT ![s] = <<>>]
  /\ UNCHANGED <<tx_rows, tx_trigger, table_lock>>
  /\ UNCHANGED <<rows, trigger_enabled, pageVars, shopVars>>

\* the client calls the function; "Validate input"
Call(s, p, T) ==
  /\ pc[s] = "idle"
  /\ p_product_id' = [p_product_id EXCEPT ![s] = p]
  /\ p_tiers' = [p_tiers EXCEPT ![s] = T]
  /\ IF T = <<>>
     THEN RaiseInBlock(s, "empty_input")
     ELSE /\ pc' = [pc EXCEPT ![s] = "disable_trigger"]
          /\ result' = [result EXCEPT ![s] = "running"]
          /\ inserted_tiers' = [inserted_tiers EXCEPT ![s] = <<>>]
          /\ UNCHANGED <<tx_rows, tx_trigger, table_lock>>
  /\ UNCHANGED <<rows, trigger_enabled, pageVars, shopVars>>

\* DisableTrigger taking effect for every session at once: no lock is held
\* and the trigger is disabled in the committed catalog
DisableTriggerForAll(s) ==
  /\ pc[s] = "disable_trigger"
  /\ trigger_enabled' = FALSE
  /\ tx_rows' = [tx_rows EXCEPT ![s] = rows]
  /\ tx_trigger' = [tx_trigger EXCEPT ![s] = FALSE]
  /\ pc' = [pc EXCEPT ![s] = "delete"]
  /\ UNCHANGED <<rows, table_lock, p_product_id, p_tiers, inserted_tiers, result,
                 pageVars, shopVars>>

\* ALTER TABLE product_price_tiers DISABLE TRIGGER validate_price_tiers_trigger
DisableTrigger(s) ==
  /\ pc[s] = "disable_trigger"
  /\ table_lock = NoSession
  /\ table_lock' = s
  /\ tx_rows' = [tx_rows EXCEPT ![s] = rows]
  /\ tx_trigger' = [tx_trigger EXCEPT ![s] = FALSE]
  /\ pc' = [pc EXCEPT ![s] = "delete"]
  /\ UNCHANGED <<rows, trigger_enabled, p_product_id, p_tiers, inserted_tiers, result,
                 pageVars, shopVars>>

\* DeleteExisting with the DELETE committed on its own, outside the
\* transaction of the call
DeleteExistingCommitted(s) ==
  /\ pc[s] = "delete"
  /\ LET R == tx_rows[s] \ ProductRows(tx_rows[s], p_product_id[s])
     IN /\ tx_rows' = [tx_rows EXCEPT ![s] = R]
        /\ rows' = R
        /\ pc' = [pc EXCEPT ![s] = "insert"]
  /\ UNCHANGED <<trigger_enabled, table_lock, inserted_tiers, result, tx_trigger,
                 p_product_id, p_tiers, pageVars, shopVars>>

\* DeleteExisting with the DELETE left out
DeleteExistingSkipped(s) ==
  /\ pc[s] = "delete"
  /\ pc' = [pc EXCEPT ![s] = "insert"]
  /\ UNCHANGED <<rows, trigger_enabled, table_lock, tx_rows, inserted_tiers, result,
                 tx_trigger, p_product_id, p_tiers, pageVars, shopVars>>

\* DeleteExisting with the WHERE clause left out
DeleteExistingEveryProduct(s) ==
  /\ pc[s] = "delete"
  /\ tx_rows' = [tx_rows EXCEPT ![s] = {}]
  /\ pc' = [pc EXCEPT ![s] = "insert"]
  /\ UNCHANGED <<table_lock, inserted_tiers, result, tx_trigger>>
  /\ UNCHANGED <<rows, trigger_enabled, p_product_id, p_tiers, pageVars, shopVars>>

\* DELETE FROM product_price_tiers WHERE product_id = p_product_id
DeleteExisting(s) ==
  /\ pc[s] = "delete"
  /\ LET R == tx_rows[s] \ ProductRows(tx_rows[s], p_product_id[s])
     IN IF StatementOk(R, tx_trigger[s])
        THEN /\ tx_rows' = [tx_rows EXCEPT ![s] = R]
             /\ pc' = [pc EXCEPT ![s] = "insert"]
             /\ UNCHANGED <<table_lock, inserted_tiers, result, tx_trigger>>
        ELSE RaiseInBlock(s, "trigger")
  /\ UNCHANGED <<rows, trigger_enabled, p_product_id, p_tiers, pageVars, shopVars>>

\* the CASE expressions of the INSERT: JSON null (or absent) becomes NULL,
\* anything else is cast to the column's type
JsonToColumn(v) == IF v = NULL THEN NULL ELSE v

\* InsertedRow with the discounted price column left out of the INSERT
InsertedRowNoDiscount(id, p, tier) ==
  [id |-> id, product_id |-> p,
   min_quantity |-> tier.min_quantity,
   max_quantity |-> tier.max_quantity,
   unit_price |-> tier.unit_price,
   discounted_unit_price |-> NULL]

InsertedRow(id, p, tier) ==
  [id |-> id, product_id |-> p,
   min_quantity |-> tier.min_quantity,
   max_quantity |-> JsonToColumn(tier.max_quantity),
   unit_price |-> tier.unit_price,
   discounted_unit_price |-> JsonToColumn(tier.discounted_unit_price)]

\* one iteration of FOR tier IN SELECT * FROM jsonb_array_elements(p_tiers):
\* INSERT ... RETURNING * INTO tier_record; inserted_tiers := inserted_tiers || ...
\* The INSERT can fail for a reason outside the tier rules (accepted = FALSE).
InsertTier(s, accepted) ==
  /\ pc[s] = "insert"
  /\ Len(inserted_tiers[s]) < Len(p_tiers[s])
  /\ HasFreshId
  /\ LET tier_record == InsertedRow(FreshId, p_product_id[s],
                                    p_tiers[s][Len(inserted_tiers[s]) + 1])
         R == tx_rows[s] \cup {tier_record}
     IN IF accepted /\ StatementOk(R, tx_trigger[s])
        THEN /\ tx_rows' = [tx_rows EXCEPT ![s] = R]
             /\ inserted_tiers' = [inserted_tiers EXCEPT ![s] = Append(@, tier_record)]
             /\ UNCHANGED <<pc, table_lock, result, tx_trigger>>
        ELSE RaiseInBlock(s, IF accepted THEN "trigger" ELSE "insert_failed")
  /\ UNCHANGED <<rows, trigger_enabled, p_product_id, p_tiers, pageVars, shopVars>>

\* EnableTrigger with the ENABLE TRIGGER statement left out
EnableTriggerSkipped(s) ==
  /\ pc[s] = "insert"
  /\ Len(inserted_tiers[s]) = Len(p_tiers[s])
  /\ pc' = [pc EXCEPT ![s] = "validate"]
  /\ UNCHANGED <<rows, trigger_enabled, table_lock, p_product_id, p_tiers, tx_rows,
                 tx_trigger, inserted_tiers, result, pageVars, shopVars>>

\* ALTER TABLE product_price_tiers ENABLE TRIGGER validate_price_tiers_trigger
EnableTrigger(s) ==
  /\ pc[s] = "insert"
  /\ Len(inserted_tiers[s]) = Len(p_tiers[s])
  /\ tx_trigger' = [tx_trigger EXCEPT ![s] = TRUE]
  /\ pc' = [pc EXCEPT ![s] = "validate"]
  /\ UNCHANGED <<rows, trigger_enabled, table_lock, p_product_id, p_tiers, tx_rows,
                 inserted_tiers, result, pageVars, shopVars>>

\* Validate with the violations reported but not raised
ValidateNoRaise(s) ==
  /\ pc[s] = "validate"
  /\ pc' = [pc EXCEPT ![s] = "return"]
  /\ UNCHANGED <<rows, trigger_enabled, table_lock, p_product_id, p_tiers, tx_rows,
                 tx_trigger, inserted_tiers, result, pageVars, shopVars>>

\* the nested block: manual validation of this product, RAISE on a violation
Validate(s) ==
  /\ pc[s] = "validate"
  /\ LET verdict == ManualValidation(tx_rows[s], p_product_id[s])
     IN IF verdict = "ok"
        THEN /\ pc' = [pc EXCEPT ![s] = "return"]
             /\ UNCHANGED <<table_lock, tx_rows, tx_trigger, inserted_tiers, result>>
        ELSE RaiseInBlock(s, verdict)
  /\ UNCHANGED <<rows, trigger_enabled, p_product_id, p_tiers, pageVars, shopVars>>

\* RETURN inserted_tiers: the call's transaction commits and the caller
\* receives inserted_tiers
Return(s) ==
  /\ pc[s] = "return"
  /\ rows' = tx_rows[s]
  /\ trigger_enabled' = tx_trigger[s]
  /\ table_lock' = NoSession
  /\ tx_rows' = [tx_rows EXCEPT ![s] = {}]
  /\ result' = [result EXCEPT ![s] = "ok"]
  /\ pc' = [pc EXCEPT ![s] = "idle"]
  /\ p_tiers' = [p_tiers EXCEPT ![s] = <<>>]
  /\ inserted_tiers' = [inserted_tiers EXCEPT ![s] = <<>>]
  /\ UNCHANGED <<p_product_id, tx_trigger, pageVars, shopVars>>

\* EXCEPTION WHEN OTHERS THEN ALTER TABLE ... ENABLE TRIGGER ...
Handler(s) ==
  /\ pc[s] = "handler"
  /\ table_lock = NoSession
  /\ table_lock' = s
  /\ tx_trigger' = [tx_trigger EXCEPT ![s] = TRUE]
  /\ pc' = [pc EXCEPT ![s] = "reraise"]
  /\ UNCHANGED <<rows, trigger_enabled, p_product_id, p_tiers, tx_rows, inserted_tiers,
                 result, pageVars, shopVars>>

\* RAISE: the error leaves the function and the call's transaction aborts
Reraise(s) ==
  /\ pc[s] = "reraise"
  /\ table_lock' = NoSession
  /\ pc' = [pc EXCEPT ![s] = "idle"]
  /\ p_tiers' = [p_tiers EXCEPT ![s] = <<>>]
  /\ UNCHANGED <<rows, trigger_enabled, p_product_id, tx_rows, tx_trigger,
                 inserted_tiers, result, pageVars, shopVars>>

\* ------------------------------------------------ direct row statements
\* a field an update leaves out
KEEP == 0 - 2

\* the values direct statements write: a good and a bad one per column
Quantities == MinQuantities

UnitPrices == {0, 2}

DiscountedPrices == {NULL, 2}

\* a single statement of another client: it waits for the table lock, runs
\* the trigger as committed, and commits R or fails leaving the table as is
DirectStatement(R) ==
  /\ table_lock = NoSession
  /\ rows' = IF StatementOk(R, trigger_enabled) THEN R ELSE rows
  /\ UNCHANGED <<trigger_enabled, table_lock, sessionVars, pageVars, shopVars>>

\* createPriceTier: insert {product_id, quantity, unit_price, discounted_unit_price};
\* quantity is the tier's threshold and no upper bound is sent
createPriceTier(productId, quantity, unit_price, discounted_unit_price) ==
  /\ HasFreshId
  /\ DirectStatement(rows \cup
       {Row(FreshId, productId, Tier(quantity, NULL, unit_price, discounted_unit_price))})

ApplyUpdate(old, new) == IF new = KEEP THEN old ELSE new

\* updatePriceTier: update(updates).eq('id', tierId)
updatePriceTier(tierId, quantity, unit_price, discounted_unit_price) ==
  /\ tierId \in RowIds(rows)
  /\ LET r == CHOOSE x \in rows : x.id = tierId
         u == [r EXCEPT !.min_quantity = ApplyUpdate(@, quantity),
                        !.unit_price = ApplyUpdate(@, unit_price),
                        !.discounted_unit_price = ApplyUpdate(@, discounted_unit_price)]
     IN DirectStatement((rows \ {r}) \cup {u})

\* deletePriceTier: delete().eq('id', tierId)
deletePriceTier(tierId) ==
  /\ tierId \in RowIds(rows)
  /\ DirectStatement({r \in rows : r.id # tierId})

\* fetchProductPriceTiers: a read of the committed rows of the product (it
\* takes no lock that a writer holds), or [] when the request fails
fetchProductPriceTiers(productId, error) ==
  IF error THEN {} ELSE ProductRows(rows, productId)

\* ------------------------------------------------- PricingModeToggle
\* onModeChange as both pages pass it: setPricingMode(...)
onModeChange(mode) == pricingMode' = mode

\* handleToggle applying every requested mode at once
handleToggleUngated(checked) ==
  /\ page # "none" /\ pagePc = "form" /\ ~showConfirmDialog
  /\ checked = (pricingMode # "tiered")
  /\ onModeChange(IF checked THEN "tiered" ELSE "simple")
  /\ UNCHANGED <<storeVars, sessionVars, shopVars, products, page, pageProductId, pagePc,
                 priceTiers, price, featured_offer_price, pendingMode, showConfirmDialog,
                 rows_at_submit>>

\* the Switch reports the value it flips to
handleToggle(checked) ==
  /\ page # "none" /\ pagePc = "form" /\ ~showConfirmDialog
  /\ checked = (pricingMode # "tiered")
  /\ LET hasSinglePriceData == price > 0
         hasTieredPriceData == Len(priceTiers) > 0
         hasDataInCurrentMode ==
           IF checked THEN hasSinglePriceData ELSE hasTieredPriceData
         mode == IF checked THEN "tiered" ELSE "simple"
     IN IF hasDataInCurrentMode
        THEN /\ pendingMode' = mode
             /\ showConfirmDialog' = TRUE
             /\ UNCHANGED pricingMode
        ELSE /\ onModeChange(mode)
             /\ UNCHANGED <<pendingMode, showConfirmDialog>>
  /\ UNCHANGED <<storeVars, sessionVars, shopVars, products, page, pageProductId, pagePc, priceTiers,
                 price, rows_at_submit,
                 featured_offer_price>>

confirmModeChange ==
  /\ page # "none" /\ pagePc = "form" /\ showConfirmDialog
  /\ IF pendingMode # NoMode THEN onModeChange(pendingMode) ELSE UNCHANGED pricingMode
  /\ showConfirmDialog' = FALSE
  /\ pendingMode' = NoMode
  /\ UNCHANGED <<storeVars, sessionVars, shopVars, products, page, pageProductId, pagePc, priceTiers,
                 price, rows_at_submit,
                 featured_offer_price>>

\* cancelModeChange applying the pending mode as it closes the dialog
cancelModeChangeApplying ==
  /\ page # "none" /\ pagePc = "form" /\ showConfirmDialog
  /\ IF pendingMode # NoMode THEN onModeChange(pendingMode) ELSE UNCHANGED pricingMode
  /\ showConfirmDialog' = FALSE
  /\ pendingMode' = NoMode
  /\ UNCHANGED <<storeVars, sessionVars, shopVars, products, page, pageProductId, pagePc,
                 priceTiers, price, featured_offer_price, rows_at_submit>>

cancelModeChange ==
  /\ page # "none" /\ pagePc = "form" /\ showConfirmDialog
  /\ showConfirmDialog' = FALSE
  /\ pendingMode' = NoMode
  /\ UNCHANGED <<storeVars, sessionVars, shopVars, products, page, pageProductId, pagePc, pricingMode,
                 priceTiers, price, rows_at_submit,
                 featured_offer_price>>

\* <AlertDialog open={showConfirmDialog} onOpenChange={setShowConfirmDialog}>:
\* the dialog reports that it was dismissed
setShowConfirmDialog(open) ==
  /\ page # "none" /\ pagePc = "form" /\ showConfirmDialog
  /\ ~open
  /\ showConfirmDialog' = open
  /\ UNCHANGED <<storeVars, sessionVars, shopVars, products, page, pageProductId, pagePc,
                 pricingMode, priceTiers, price, featured_offer_price, pendingMode,
                 rows_at_submit>>

\* the price field of the form, shown in simple mode
SetPrice(v) ==
  /\ page # "none" /\ pagePc = "form" /\ ~showConfirmDialog
  /\ pricingMode = "simple"
  /\ price' = v
  /\ UNCHANGED <<storeVars, sessionVars, shopVars, products, page, pageProductId, pagePc, pricingMode,
                 priceTiers, showConfirmDialog, pendingMode, rows_at_submit,
                 featured_offer_price>>

\* the promotional price field of the form, shown in simple mode
SetFeaturedOfferPrice(v) ==
  /\ page # "none" /\ pagePc = "form" /\ ~showConfirmDialog
  /\ pricingMode = "simple"
  /\ featured_offer_price' = v
  /\ UNCHANGED <<storeVars, sessionVars, shopVars, products, page, pageProductId, pagePc,
                 pricingMode, priceTiers, price, showConfirmDialog, pendingMode,
                 rows_at_submit>>

\* ----------------------------------------------- TieredPricingManager
\* the manager is rendered in tiered mode; onChange is setPriceTiers
ManagerShown ==
  page # "none" /\ pagePc = "form" /\ ~showConfirmDialog /\ pricingMode = "tiered"

ManagerFrame ==
  UNCHANGED <<storeVars, sessionVars, shopVars, products, page, pageProductId, pagePc, pricingMode,
              price, showConfirmDialog, pendingMode, rows_at_submit,
                 featured_offer_price>>

\* !x of a number field: undefined, null and 0 are falsy
Falsy(x) == x = NULL \/ x = 0

handleAddTier(newTier) ==
  /\ ManagerShown
  /\ Len(priceTiers) < MaxTiers
  /\ IF Falsy(newTier.min_quantity) THEN UNCHANGED priceTiers
     ELSE IF Falsy(newTier.unit_price) \/ newTier.unit_price <= 0 THEN UNCHANGED priceTiers
     ELSE LET minQuantity == IF Len(priceTiers) = 0 /\ newTier.min_quantity # 1
                             THEN 1 ELSE newTier.min_quantity
              tierToAdd == Tier(minQuantity, newTier.max_quantity, newTier.unit_price,
                                newTier.discounted_unit_price)
          IN priceTiers' = Append(priceTiers, tierToAdd)
  /\ ManagerFrame

\* index is 0-based as in the component
handleDeleteTier(index) ==
  /\ ManagerShown
  /\ index < Len(priceTiers)
  /\ priceTiers' = [i \in 1..(Len(priceTiers) - 1) |->
                      IF i <= index THEN priceTiers[i] ELSE priceTiers[i + 1]]
  /\ ManagerFrame

\* handleStartEdit(editingIndex), typing editingTier, then handleSaveEdit
handleSaveEdit(editingIndex, editingTier) ==
  /\ ManagerShown
  /\ editingIndex < Len(priceTiers)
  /\ IF Falsy(editingTier.min_quantity) \/ editingTier.min_quantity <= 0
       THEN UNCHANGED priceTiers
     ELSE IF Falsy(editingTier.unit_price) \/ editingTier.unit_price <= 0
       THEN UNCHANGED priceTiers
     ELSE IF editingTier.max_quantity # NULL
             /\ editingTier.max_quantity <= editingTier.min_quantity
       THEN UNCHANGED priceTiers
     ELSE IF ~Falsy(editingTier.discounted_unit_price)
             /\ (editingTier.discounted_unit_price <= 0
                 \/ editingTier.discounted_unit_price >= editingTier.unit_price)
       THEN UNCHANGED priceTiers
     ELSE priceTiers' = [priceTiers EXCEPT ![editingIndex + 1] = editingTier]
  /\ ManagerFrame

\* ---------------------------------------------------- the product pages
\* rows in the order .order('min_quantity') returns them; rows with the
\* same min_quantity come in id order
RECURSIVE OrderByMinQuantity(_)
OrderByMinQuantity(R) ==
  IF R = {} THEN <<>>
  ELSE LET first == CHOOSE r \in R : \A x \in R :
                      \/ r.min_quantity < x.min_quantity
                      \/ (r.min_quantity = x.min_quantity /\ r.id <= x.id)
       IN <<first>> \o OrderByMinQuantity(R \ {first})

\* tiers.map(tier => ({..., discounted_unit_price:
\*   tier.discounted_unit_price ? parseFloat(tier.discounted_unit_price) : null}))
LoadedTier(r) ==
  Tier(r.min_quantity, r.max_quantity, r.unit_price,
       IF Falsy(r.discounted_unit_price) THEN NULL ELSE r.discounted_unit_price)

PageFrame == UNCHANGED <<trigger_enabled, table_lock, sessionVars, shopVars>>

\* EditProductPage fetchProduct: the form and the mode are set from the
\* product, then the tiers are read; a failing read leaves priceTiers empty
OpenEditPage(id, tiersError) ==
  /\ page = "none"
  /\ products[id].exists
  /\ page' = "edit"
  /\ pageProductId' = id
  /\ price' = products[id].price
  /\ featured_offer_price' = IF Falsy(products[id].featured_offer_price)
                             THEN NULL ELSE products[id].featured_offer_price
  /\ pricingMode' = IF products[id].has_tiered_pricing THEN "tiered" ELSE "simple"
  /\ priceTiers' = IF products[id].has_tiered_pricing /\ ~tiersError
                   THEN LET ordered == OrderByMinQuantity(ProductRows(rows, id))
                        IN [i \in 1..Len(ordered) |-> LoadedTier(ordered[i])]
                   ELSE <<>>
  /\ pagePc' = "form"
  /\ showConfirmDialog' = FALSE
  /\ pendingMode' = NoMode
  /\ UNCHANGED <<rows, products, rows_at_submit>>
  /\ PageFrame

\* CreateProductPage: the initial useState values
OpenCreatePage ==
  /\ page = "none"
  /\ page' = "create"
  /\ pageProductId' = "none"
  /\ price' = 0
  /\ featured_offer_price' = NULL
  /\ pricingMode' = "simple"
  /\ priceTiers' = <<Tier(1, NULL, 0, NULL)>>
  /\ pagePc' = "form"
  /\ showConfirmDialog' = FALSE
  /\ pendingMode' = NoMode
  /\ UNCHANGED <<rows, products, rows_at_submit>>
  /\ PageFrame

FormFrame ==
  UNCHANGED <<pricingMode, priceTiers, price, featured_offer_price, showConfirmDialog,
              pendingMode>>

\* the next request of onSubmit is awaited
Await(position) ==
  /\ pagePc' = position
  /\ UNCHANGED <<page, rows_at_submit>>
  /\ FormFrame

\* catch (error) { toast.error(...) } finally { setLoading(false) }: the
\* page stays open with its form as it was
Catch ==
  /\ pagePc' = "form"
  /\ rows_at_submit' = {}
  /\ UNCHANGED page
  /\ FormFrame

\* toast.success(...); navigate('/dashboard/listings'): the page unmounts
Navigate ==
  /\ pagePc' = "form"
  /\ rows_at_submit' = {}
  /\ page' = "none"
  /\ pricingMode' = "simple"
  /\ priceTiers' = <<>>
  /\ price' = 0
  /\ featured_offer_price' = NULL
  /\ UNCHANGED <<showConfirmDialog, pendingMode>>

\* onSubmit of both pages up to the first request
onSubmit ==
  /\ page # "none" /\ pagePc = "form" /\ ~showConfirmDialog
  /\ IF pricingMode = "tiered" /\ Len(priceTiers) = 0
     THEN UNCHANGED <<pagePc, rows_at_submit>>
     ELSE /\ pagePc' = IF page = "edit" THEN "update_product" ELSE "insert_product"
          /\ rows_at_submit' = rows
  /\ UNCHANGED <<rows, products, page, pageProductId>>
  /\ FormFrame /\ PageFrame

productData ==
  [exists |-> TRUE,
   price |-> IF pricingMode = "simple" THEN price ELSE 0,
   featured_offer_price |-> IF Falsy(featured_offer_price) THEN NULL
                            ELSE featured_offer_price,
   has_tiered_pricing |-> pricingMode = "tiered"]

\* supabase.from('products').update(productData).eq('id', id)
UpdateProduct(ok) ==
  /\ pagePc = "update_product"
  /\ IF ok
     THEN products' = [products EXCEPT ![pageProductId] = productData] /\ Await("images")
     ELSE Catch /\ UNCHANGED products
  /\ UNCHANGED <<rows, pageProductId>>
  /\ PageFrame

\* supabase.from('products').insert(productData).select().single()
InsertProduct(ok) ==
  /\ pagePc = "insert_product"
  /\ LET free == {p \in Products : ~products[p].exists}
     IN IF ok /\ free # {}
        THEN LET id == CHOOSE p \in free : TRUE
             IN /\ products' = [products EXCEPT ![id] = productData]
                /\ pageProductId' = id
                /\ Await("images")
        ELSE Catch /\ UNCHANGED <<products, pageProductId>>
  /\ UNCHANGED rows
  /\ PageFrame

\* the product_images requests and uploads between the product and the tiers
Images(ok) ==
  /\ pagePc = "images"
  /\ IF ~ok THEN Catch
     ELSE IF page = "edit"
       THEN Await(IF pricingMode = "tiered" THEN "delete_old_tiers" ELSE "delete_all_tiers")
     ELSE IF pricingMode = "tiered" /\ Len(priceTiers) > 0
       THEN Await("insert_tiers")
     ELSE Navigate
  /\ UNCHANGED <<rows, products, pageProductId>>
  /\ PageFrame

\* product_price_tiers.delete().eq('product_id', id), in either branch
DeleteTiers(ok) ==
  /\ pagePc \in {"delete_old_tiers", "delete_all_tiers"}
  /\ table_lock = NoSession
  /\ LET R == rows \ ProductRows(rows, pageProductId)
     IN IF ok /\ StatementOk(R, trigger_enabled)
        THEN /\ rows' = R
             /\ IF pagePc = "delete_old_tiers" /\ Len(priceTiers) > 0
                THEN Await("insert_tiers")
                ELSE Navigate
        ELSE Catch /\ UNCHANGED rows
  /\ UNCHANGED <<products, pageProductId>>
  /\ PageFrame

\* the rows one INSERT of several records adds, each with a new id
RECURSIVE InsertRecords(_, _, _)
InsertRecords(R, p, tierRecords) ==
  IF tierRecords = <<>> THEN R
  ELSE LET free == Ids \ RowIds(R)
           id == CHOOSE i \in free : \A j \in free : i <= j
       IN InsertRecords(R \cup {Row(id, p, Head(tierRecords))}, p, Tail(tierRecords))

\* the record each page builds from a tier: the edit page sends min_quantity
\* and max_quantity, the create page sends the threshold as quantity and no
\* upper bound
TierRecord(tier) ==
  IF page = "edit" THEN tier
  ELSE Tier(tier.min_quantity, NULL, tier.unit_price, tier.discounted_unit_price)

\* product_price_tiers.insert(tierRecords)
InsertTiers(ok) ==
  /\ pagePc = "insert_tiers"
  /\ table_lock = NoSession
  /\ Cardinality(Ids \ RowIds(rows)) >= Len(priceTiers)
  /\ LET tierRecords == [i \in 1..Len(priceTiers) |-> TierRecord(priceTiers[i])]
         R == InsertRecords(rows, pageProductId, tierRecords)
     IN IF ok /\ StatementOk(R, trigger_enabled)
        THEN rows' = R /\ Navigate
        ELSE Catch /\ UNCHANGED rows
  /\ UNCHANGED <<products, pageProductId>>
  /\ PageFrame

\* ------------------------------------------------------ the price resolver
\* a || b on numbers: undefined, null and 0 give b
OrElse(a, b) == IF Falsy(a) THEN b ELSE a

\* FindApplicableTier taking the first tier the quantity reaches
FindApplicableTierFirst(sortedTiers, quantity) ==
  LET matching == SelectSeq(sortedTiers, LAMBDA tier : quantity >= tier.min_quantity)
  IN IF matching = <<>> THEN NullTier ELSE matching[1]

\* sortedTiers.filter(tier => quantity >= tier.quantity).pop()
FindApplicableTier(sortedTiers, quantity) ==
  LET matching == SelectSeq(sortedTiers, LAMBDA tier : quantity >= tier.min_quantity)
  IN IF matching = <<>> THEN NullTier ELSE matching[Len(matching)]

\* FindNextTier taking the last tier above the quantity
FindNextTierLast(sortedTiers, quantity) ==
  LET above == SelectSeq(sortedTiers, LAMBDA tier : tier.min_quantity > quantity)
  IN IF above = <<>> THEN NullTier ELSE above[Len(above)]

\* sortedTiers.find(tier => tier.quantity > quantity) || null
FindNextTier(sortedTiers, quantity) ==
  LET above == SelectSeq(sortedTiers, LAMBDA tier : tier.min_quantity > quantity)
  IN IF above = <<>> THEN NullTier ELSE above[1]

\* NextTierSavings at the next tier's unit price, its discounted price ignored
NextTierSavingsUndiscounted(nextTier, baseUnitPrice) ==
  IF nextTier # NullTier
  THEN baseUnitPrice * nextTier.min_quantity - nextTier.unit_price * nextTier.min_quantity
  ELSE 0

\* if (nextTier) { ... nextTierSavings = baseTotalAtNextTier - nextTierTotalPrice }
NextTierSavings(nextTier, baseUnitPrice) ==
  IF nextTier # NullTier
  THEN LET nextTierUnitPrice == OrElse(nextTier.discounted_unit_price, nextTier.unit_price)
           nextTierTotalPrice == nextTierUnitPrice * nextTier.min_quantity
           baseTotalAtNextTier == baseUnitPrice * nextTier.min_quantity
       IN baseTotalAtNextTier - nextTierTotalPrice
  ELSE 0

\* calculateApplicablePrice; tier.quantity is the tier's threshold, the
\* min_quantity of the row
calculateApplicablePrice(quantity, tiers, basePrice, baseDiscountedPrice) ==
  IF Len(tiers) = 0
  THEN LET unitPrice == OrElse(baseDiscountedPrice, basePrice)
       IN [unitPrice |-> unitPrice,
           totalPrice |-> unitPrice * quantity,
           appliedTier |-> NullTier,
           savings |-> 0,
           nextTier |-> NullTier,
           nextTierSavings |-> 0,
           unitsToNextTier |-> 0]
  ELSE LET sortedTiers == SortByMinQuantity(tiers)
           applicableTier == FindApplicableTier(sortedTiers, quantity)
           unitPrice ==
             IF applicableTier # NullTier
             THEN OrElse(applicableTier.discounted_unit_price, applicableTier.unit_price)
             ELSE OrElse(baseDiscountedPrice, basePrice)
           totalPrice == unitPrice * quantity
           baseUnitPrice == OrElse(baseDiscountedPrice, basePrice)
           baseTotalPrice == baseUnitPrice * quantity
           savings == baseTotalPrice - totalPrice
           nextTier == FindNextTier(sortedTiers, quantity)
       IN [unitPrice |-> unitPrice,
           totalPrice |-> totalPrice,
           appliedTier |-> applicableTier,
           savings |-> savings,
           nextTier |-> nextTier,
           nextTierSavings |-> NextTierSavings(nextTier, baseUnitPrice),
           unitsToNextTier |->
             IF nextTier # NullTier THEN nextTier.min_quantity - quantity ELSE 0]

\* ------------------------------------------------------ TieredPricingTable
Max(a, b) == IF a >= b THEN a ELSE b

\* const calculatorResult = calculateApplicablePrice(calculatorQuantity, tiers,
\* basePrice, baseDiscountedPrice), after "if (!tiers || tiers.length === 0)
\* return null"
RenderCalculator(quantity) ==
  IF Len(viewedTiers) = 0 THEN NoResult
  ELSE calculateApplicablePrice(quantity, viewedTiers, viewedPrice, viewedDiscountedPrice)

\* the calculator's input: onChange={(e) => setCalculatorQuantity(Math.max(1,
\* parseInt(e.target.value) || 1))}; parseInt gives NaN or an integer
setCalculatorQuantity(isNaN, parsed) ==
  /\ Len(viewedTiers) > 0
  /\ calculatorQuantity' = Max(1, IF isNaN THEN 1 ELSE OrElse(parsed, 1))
  /\ calculatorResult' = RenderCalculator(calculatorQuantity')
  /\ UNCHANGED <<storeVars, sessionVars, pageVars, viewedTiers, viewedPrice,
                 viewedDiscountedPrice, modalQuantity, pricingInfo, addedToCart>>

\* ----------------------------------------------------- ProductVariantModal
\* if (hasTieredPricing && priceTiers.length > 0) { const result =
\* calculateApplicablePrice(quantity, priceTiers, product.price || 0,
\* product.discounted_price); ... pricingInfo = result }
RenderModal(quantity) ==
  IF Len(viewedTiers) > 0
  THEN calculateApplicablePrice(quantity, viewedTiers, OrElse(viewedPrice, 0),
                                viewedDiscountedPrice)
  ELSE NoResult

ModalFrame ==
  UNCHANGED <<storeVars, sessionVars, pageVars, viewedTiers, viewedPrice,
              viewedDiscountedPrice, calculatorQuantity, calculatorResult, addedToCart>>

\* the unit price the modal shows: the resolved price, or the price of the
\* first tier when the resolved price is 0
displayedPrice ==
  LET resolved == IF Len(viewedTiers) > 0 THEN pricingInfo.unitPrice
                  ELSE OrElse(viewedDiscountedPrice, viewedPrice)
  IN IF Falsy(resolved) /\ Len(viewedTiers) > 0
     THEN OrElse(viewedTiers[1].discounted_unit_price, viewedTiers[1].unit_price)
     ELSE resolved

\* handleAddToCart of a product without colours and sizes: the resolved unit
\* price goes to addToCart, the quantity is reset and the modal closes
handleAddToCart ==
  /\ addedToCart' = [quantity |-> modalQuantity,
                     unitPrice |-> IF pricingInfo # NoResult
                                   THEN pricingInfo.unitPrice ELSE NULL]
  /\ modalQuantity' = 1
  /\ pricingInfo' = RenderModal(1)
  /\ UNCHANGED <<storeVars, sessionVars, pageVars, viewedTiers, viewedPrice,
                 viewedDiscountedPrice, calculatorQuantity, calculatorResult>>

\* the Minus button: setQuantity(Math.max(1, quantity - 1)), disabled={quantity <= 1}
MinusQuantity ==
  /\ ~(modalQuantity <= 1)
  /\ modalQuantity' = Max(1, modalQuantity - 1)
  /\ pricingInfo' = RenderModal(modalQuantity')
  /\ ModalFrame

\* the Plus button: setQuantity(quantity + 1)
PlusQuantity ==
  /\ modalQuantity < MaxQuantity
  /\ modalQuantity' = modalQuantity + 1
  /\ pricingInfo' = RenderModal(modalQuantity')
  /\ ModalFrame

\* a button of the quick tier selector, priceTiers.slice(0, 4):
\* onClick={() => setQuantity(tier.min_quantity)}
QuickSelect(index) ==
  /\ index < Len(viewedTiers) /\ index < 4
  /\ modalQuantity' = viewedTiers[index + 1].min_quantity
  /\ pricingInfo' = RenderModal(modalQuantity')
  /\ ModalFrame

\* -------------------------------------------------------- specifications
FunctionStep(s) ==
  \/ DisableTrigger(s)
  \/ DeleteExisting(s)
  \/ \E accepted \in BOOLEAN : InsertTier(s, accepted)
  \/ EnableTrigger(s)
  \/ Validate(s)
  \/ Return(s)
  \/ Handler(s)
  \/ Reraise(s)

\* one caller of the function beside clients issuing direct statements
Next ==
  \/ \E T \in TierLists : Call("s1", "p1", T)
  \/ FunctionStep("s1")
  \/ \E p \in {"p1"} : \E q \in Quantities : \E u \in UnitPrices :
       \E d \in DiscountedPrices : createPriceTier(p, q, u, d)
  \/ \E id \in Ids : \E q \in Quantities \cup {KEEP} : \E u \in UnitPrices \cup {KEEP} :
       \E d \in DiscountedPrices \cup {KEEP} : updatePriceTier(id, q, u, d)
  \/ \E id \in Ids : deletePriceTier(id)

Spec == Init /\ [][Next]_vars

\* two callers each replacing the tiers of the same product once
ConcNext ==
  \/ \E s \in Sessions : \E T \in ConcLists : result[s] = "none" /\ Call(s, "p1", T)
  \/ \E s \in Sessions : FunctionStep(s)

ConcSpec == Init /\ [][ConcNext]_vars

\* one caller replacing the tiers of either product, again and again
ScopeNext ==
  \/ \E p \in Products : \E T \in ConcLists : Call("s1", p, T)
  \/ FunctionStep("s1")

ScopeSpec == Init /\ [][ScopeNext]_vars

\* the rows a storefront can load: bands starting at 1, 2, 3, 4 and 5, priced
\* at, below and above the product's own price, with and without a
\* discounted price, and one band whose threshold is 0
ViewedPool ==
  {Tier(1, 3, 3, NULL), Tier(1, 3, 3, 2), Tier(1, NULL, 2, NULL), Tier(0, 3, 2, NULL),
   Tier(2, 3, 3, NULL), Tier(3, 4, 3, NULL),
   Tier(4, NULL, 2, NULL), Tier(4, NULL, 4, NULL), Tier(4, NULL, 3, 1),
   Tier(5, NULL, 2, 1)}

\* product_price_tiers rows of one product as the trigger lets them be
\* committed, in any order
ViewedLists ==
  {T \in SeqsUpTo(ViewedPool, MaxTiers) :
     TriggerAccepts({Row(i, "p1", T[i]) : i \in 1..Len(T)})}

ViewedPrices == {0, 2, 3}

ViewedDiscountedPrices == {NULL, 0, 1}

\* both storefront components mounted on one product: useState(1)
ResolverInit ==
  /\ BackOfficeInit
  /\ viewedTiers \in ViewedLists
  /\ viewedPrice \in ViewedPrices
  /\ viewedDiscountedPrice \in ViewedDiscountedPrices
  /\ calculatorQuantity = 1
  /\ calculatorResult = RenderCalculator(1)
  /\ modalQuantity = 1
  /\ pricingInfo = RenderModal(1)
  /\ addedToCart = NoCartItem

\* a shopper using the calculator and the modal
ResolverNext ==
  \/ \E isNaN \in BOOLEAN : \E parsed \in (0 - 2)..MaxQuantity :
       setCalculatorQuantity(isNaN, parsed)
  \/ MinusQuantity
  \/ PlusQuantity
  \/ \E index \in 0..(MaxTiers - 1) : QuickSelect(index)
  \/ handleAddToCart

ResolverSpec == ResolverInit /\ [][ResolverNext]_vars

\* what a user types into the manager's new-tier and edit-tier fields
NewTiers ==
  {Tier(1, NULL, 2, NULL), Tier(3, NULL, 2, NULL), Tier(1, 2, 2, NULL),
   Tier(0, NULL, 2, NULL), Tier(1, NULL, 0, NULL)}

EditingTiers == NewTiers \cup {Tier(3, 2, 2, NULL), Tier(1, NULL, 2, 2)}

FormPrices == {0, 2}

\* the promotional price field: left empty, or a price
FormOfferPrices == {NULL, 1}

\* const errors = useMemo(() => validateTiers(tiers), [tiers, validateTiers])
errors == validateTiers(priceTiers)

\* tiers a user can have put into the manager: ranges that nest, touch,
\* repeat and lie apart
ManagerPool ==
  {Tier(1, 2, 2, NULL), Tier(1, NULL, 2, NULL), Tier(3, NULL, 2, NULL),
   Tier(2, 4, 2, NULL), Tier(3, 3, 2, NULL), Tier(5, 6, 2, NULL)}

ManagerLists == SeqsUpTo(ManagerPool, MaxListed)

\* the manager shown on the edit page in tiered mode, holding some tiers
ManagerInit ==
  /\ StoreInit
  /\ page = "edit"
  /\ pageProductId = "p1"
  /\ pagePc = "form"
  /\ pricingMode = "tiered"
  /\ priceTiers \in ManagerLists
  /\ price = 0
  /\ featured_offer_price = NULL
  /\ showConfirmDialog = FALSE
  /\ pendingMode = NoMode
  /\ rows_at_submit = {}
  /\ viewedTiers = <<>>
  /\ viewedPrice = 0
  /\ viewedDiscountedPrice = NULL
  /\ calculatorQuantity = 1
  /\ calculatorResult = NoResult
  /\ modalQuantity = 1
  /\ pricingInfo = NoResult
  /\ addedToCart = NoCartItem

\* a user adding, deleting and editing tiers in the manager
ManagerNext ==
  \/ \E newTier \in NewTiers : handleAddTier(newTier)
  \/ \E index \in 0..(MaxListed - 1) : handleDeleteTier(index)
  \/ \E editingIndex \in 0..(MaxListed - 1) : \E editingTier \in EditingTiers :
       handleSaveEdit(editingIndex, editingTier)

ManagerSpec == ManagerInit /\ [][ManagerNext]_vars

\* one user on the dashboard pages, saving through the pages' own requests
PageNext ==
  \/ \E id \in Products : \E tiersError \in BOOLEAN : OpenEditPage(id, tiersError)
  \/ OpenCreatePage
  \/ \E checked \in BOOLEAN : handleToggle(checked)
  \/ confirmModeChange
  \/ cancelModeChange
  \/ \E v \in FormPrices : SetPrice(v)
  \/ \E newTier \in NewTiers : handleAddTier(newTier)
  \/ \E index \in 0..(MaxTiers - 1) : handleDeleteTier(index)
  \/ \E editingIndex \in 0..(MaxTiers - 1) : \E editingTier \in EditingTiers :
       handleSaveEdit(editingIndex, editingTier)
  \/ onSubmit
  \/ \E ok \in BOOLEAN : UpdateProduct(ok)
  \/ \E ok \in BOOLEAN : InsertProduct(ok)
  \/ \E ok \in BOOLEAN : Images(ok)
  \/ \E ok \in BOOLEAN : DeleteTiers(ok)
  \/ \E ok \in BOOLEAN : InsertTiers(ok)

PageSpec == Init /\ [][PageNext]_vars

\* one caller replacing the tiers of p1 while another client writes single
\* rows of either product
SuspendNext ==
  \/ \E T \in ConcLists : Call("s1", "p1", T)
  \/ FunctionStep("s1")
  \/ \E p \in Products : \E q \in Quantities : \E u \in UnitPrices :
       \E d \in DiscountedPrices : createPriceTier(p, q, u, d)
  \/ \E id \in Ids : \E q \in Quantities \cup {KEEP} : \E u \in UnitPrices \cup {KEEP} :
       \E d \in DiscountedPrices \cup {KEEP} : updatePriceTier(id, q, u, d)
  \/ \E id \in Ids : deletePriceTier(id)

SuspendSpec == Init /\ [][SuspendNext]_vars

\* the tiers typed into the manager while the pricing mode is being switched
ModeTiers == {Tier(1, NULL, 2, NULL), Tier(3, NULL, 2, NULL)}

\* one user switching the pricing mode on the pages, filling the fields of
\* either mode, answering or dismissing the confirmation, and saving
ModeNext ==
  \/ \E id \in Products : OpenEditPage(id, FALSE)
  \/ OpenCreatePage
  \/ \E checked \in BOOLEAN : handleToggle(checked)
  \/ confirmModeChange
  \/ cancelModeChange
  \/ setShowConfirmDialog(FALSE)
  \/ \E v \in FormPrices : SetPrice(v)
  \/ \E v \in FormOfferPrices : SetFeaturedOfferPrice(v)
  \/ \E newTier \in ModeTiers : handleAddTier(newTier)
  \/ \E index \in 0..(MaxTiers - 1) : handleDeleteTier(index)
  \/ onSubmit
  \/ \E ok \in BOOLEAN : UpdateProduct(ok)
  \/ \E ok \in BOOLEAN : InsertProduct(ok)
  \/ \E ok \in BOOLEAN : Images(ok)
  \/ \E ok \in BOOLEAN : DeleteTiers(ok)
  \/ \E ok \in BOOLEAN : InsertTiers(ok)

ModeSpec == Init /\ [][ModeNext]_vars

\* ------------------------------------------------------------ properties
\* the tiers of a list, by position
Positions(T) == 1..Len(T)

\* the store's rules read on a tier list as the function reads them on the
\* rows it inserted from the list
FailsStoreValidation(T) ==
  \/ Cardinality({i \in Positions(T) : T[i].max_quantity = NULL}) > 1
  \/ \E i, j \in Positions(T) :
       /\ i # j
       /\ T[i].min_quantity <= Coalesce(T[j].max_quantity, UnboundedMax)
       /\ Coalesce(T[i].max_quantity, UnboundedMax) >= T[j].min_quantity
  \/ \E i \in Positions(T) :
       \/ T[i].max_quantity # NULL /\ T[i].min_quantity >= T[i].max_quantity
       \/ T[i].unit_price <= 0
       \/ T[i].discounted_unit_price # NULL /\ T[i].discounted_unit_price <= 0
       \/ T[i].discounted_unit_price # NULL
            /\ T[i].discounted_unit_price >= T[i].unit_price

\* a step of the call session s is running
CallStep(s) ==
  /\ pc[s] # "idle"
  /\ pc'[s] # pc[s] \/ inserted_tiers'[s] # inserted_tiers[s]

\* the rows R holds for p are the tiers of T, one row per tier
SameTiers(R, p, T) ==
  /\ Cardinality(ProductRows(R, p)) = Len(T)
  /\ \A r \in ProductRows(R, p) :
       Cardinality({x \in ProductRows(R, p) : TierOf(x) = TierOf(r)})
         = Cardinality({i \in Positions(T) : T[i] = TierOf(r)})

\* C1: a call of update_product_price_tiers with a non-empty list that fails
\* the store's validation changes no committed row at any of its steps and
\* ends with an error, never with a result.
C1_AtomicReplace ==
  [][\A s \in Sessions :
       (CallStep(s) /\ p_tiers[s] # <<>> /\ FailsStoreValidation(p_tiers[s]))
         => /\ rows' = rows
            /\ pc'[s] # "return"
            /\ pc'[s] = "idle" => result'[s] \notin {"ok", "running", "none"}]_vars

\* a call was rejected by the validation after its inserts and the product
\* still has its old rows
C1_Witness ==
  \E s \in Sessions :
    /\ pc[s] = "reraise"
    /\ result[s] = "overlap"
    /\ Len(p_tiers[s]) = MaxTiers
    /\ ProductRows(rows, p_product_id[s]) # {}

\* C2: while a call holds the table inside its transaction, what a reader
\* fetches for the product does not change, and the commit of a call on a
\* product with rows leaves the product with rows: no reader sees zero rows.
C2_NoEmptyRead ==
  [][\A s \in Sessions :
       (CallStep(s) /\ table_lock = s) =>
          IF pc[s] = "return"
          THEN fetchProductPriceTiers(p_product_id[s], FALSE) # {}
                 => fetchProductPriceTiers(p_product_id[s], FALSE)' # {}
          ELSE fetchProductPriceTiers(p_product_id[s], FALSE)'
                 = fetchProductPriceTiers(p_product_id[s], FALSE)]_vars

\* inside the call the product has no rows while readers still get the old ones
C2_Witness ==
  \E s \in Sessions :
    /\ pc[s] = "insert"
    /\ ProductRows(tx_rows[s], p_product_id[s]) = {}
    /\ fetchProductPriceTiers(p_product_id[s], FALSE) # {}

\* C3: with two concurrent calls on one product, the committed rows change
\* only when a call commits, and then the product's rows are exactly that
\* call's list and satisfy the trigger's rules: never a mixture of two lists.
C3_NoMixture ==
  [][\A s \in Sessions :
       CallStep(s) =>
          IF pc[s] = "return"
          THEN /\ SameTiers(rows', p_product_id[s], p_tiers[s])
               /\ TriggerAccepts(rows')
          ELSE rows' = rows]_vars

\* both calls have committed
C3_Witness ==
  /\ \A s \in Sessions : pc[s] = "idle" /\ result[s] = "ok"
  /\ ProductRows(rows, "p1") # {}

\* C4: the committed trigger state is always enabled, and a call sees the
\* trigger disabled only between its DISABLE and its ENABLE statement.
C4_TriggerEnabled ==
  /\ trigger_enabled
  /\ \A s \in Sessions : ~tx_trigger[s] => pc[s] \in {"delete", "insert"}

\* a call that raised in the validation after its inserts has returned
C4_Witness ==
  \E s \in Sessions :
    /\ pc[s] = "idle"
    /\ result[s] = "unlimited_max"
    /\ trigger_enabled

Overlapping(t1, t2) ==
  /\ (t2.max_quantity = NULL \/ t1.min_quantity <= t2.max_quantity)
  /\ (t1.max_quantity = NULL \/ t1.max_quantity >= t2.min_quantity)

\* the base invariants of the tiers the table holds for p
BaseInvariants(R, p) ==
  /\ \A t1, t2 \in ProductRows(R, p) : t1.id # t2.id => ~Overlapping(t1, t2)
  /\ Cardinality({t \in ProductRows(R, p) : t.max_quantity = NULL}) <= 1
  /\ \A t \in ProductRows(R, p) :
       /\ t.max_quantity # NULL => t.min_quantity < t.max_quantity
       /\ t.unit_price > 0
       /\ t.discounted_unit_price # NULL =>
            t.discounted_unit_price > 0 /\ t.discounted_unit_price < t.unit_price

\* C5: whatever path wrote them, the committed rows of every product satisfy
\* the base invariants: no overlap, at most one unbounded tier, min < max,
\* positive prices, discounted price below the unit price.
C5_BaseInvariants == \A p \in Products : BaseInvariants(rows, p)

\* C6: for a non-empty list, the call of update_product_price_tiers accepts
\* the list exactly when validateTiers returns no error for it (a call that
\* ends on an INSERT failing outside the tier rules says nothing).
C6_SameRules ==
  [][\A s \in Sessions :
       (CallStep(s) /\ pc'[s] = "idle" /\ p_tiers[s] # <<>>
          /\ result'[s] # "insert_failed")
         => (result'[s] = "ok" <=> validateTiers(p_tiers[s]) = <<>>)]_vars

\* C7: in tiered mode the pages' insert of the tiers writes rows only when
\* validateTiers reports no error for the tiers being edited.
C7_InvalidBlocksSave ==
  [][(pagePc = "insert_tiers" /\ rows' # rows) => validateTiers(priceTiers) = <<>>]_vars

\* C8: when no save is running, every product whose has_tiered_pricing is
\* true has at least one tier row.
C8_TieredHasTier ==
  pagePc = "form" =>
    \A p \in Products :
      (products[p].exists /\ products[p].has_tiered_pricing) => ProductRows(rows, p) # {}

\* C9: when the edit page's save fails at the delete or at the insert of the
\* tiers, the product's rows are the rows it had when the save started.
C9_EditSaveAllOrNothing ==
  [][(/\ page = "edit"
      /\ pagePc \in {"delete_old_tiers", "delete_all_tiers", "insert_tiers"}
      /\ pagePc' = "form" /\ page' = "edit")
       => ProductRows(rows', pageProductId)
            = ProductRows(rows_at_submit, pageProductId)]_vars

\* C11: a call of update_product_price_tiers with an empty list is rejected
\* with the empty-input error at its first step, runs no statement of the
\* body, and changes no committed row at any of its steps.
C11_EmptyRejected ==
  [][\A s \in Sessions :
       (\/ pc[s] = "idle" /\ pc'[s] # "idle" /\ p_tiers'[s] = <<>>
        \/ CallStep(s) /\ p_tiers[s] = <<>>)
         => /\ rows' = rows
            /\ result'[s] = "empty_input"
            /\ pc'[s] \in {"handler", "reraise", "idle"}]_vars

\* a call with an empty list has ended with the error on a product with rows
C11_Witness ==
  \E s \in Sessions :
    /\ pc[s] = "idle"
    /\ result[s] = "empty_input"
    /\ ProductRows(rows, p_product_id[s]) # {}

\* C12: a call of update_product_price_tiers for product p never changes
\* the committed rows of another product, at any of its steps, and a call
\* with a non-empty list succeeds exactly when its own list passes the
\* store's rules, whatever rows other products hold (a call that ends on an
\* INSERT failing outside the tier rules says nothing).
C12_ScopedToProduct ==
  [][\A s \in Sessions :
       CallStep(s) =>
         /\ \A q \in Products \ {p_product_id[s]} :
              ProductRows(rows', q) = ProductRows(rows, q)
         /\ (pc'[s] = "idle" /\ p_tiers[s] # <<>> /\ result'[s] # "insert_failed")
              => (result'[s] = "ok" <=> ~FailsStoreValidation(p_tiers[s]))]_vars

\* a call has replaced the rows of one product while the other product
\* holds rows of its own
C12_Witness ==
  \E s \in Sessions :
    /\ pc[s] = "idle" /\ result[s] = "ok"
    /\ Cardinality(ProductRows(rows, p_product_id[s])) = MaxTiers
    /\ \E q \in Products \ {p_product_id[s]} : ProductRows(rows, q) # {}

\* the tiers of a list as a set
TierSet(T) == {T[i] : i \in Positions(T)}

\* the lists that hold the tiers of T in some order
Reorderings(T) ==
  {T2 \in [Positions(T) -> TierSet(T)] :
     \A t \in TierSet(T) :
       Cardinality({i \in Positions(T) : T2[i] = t})
         = Cardinality({i \in Positions(T) : T[i] = t})}

\* r applies the tier of T with the greatest threshold that q reaches, at
\* that tier's discounted price when it has one and its unit price otherwise
AppliesByThreshold(r, q, T) ==
  LET reached == {t \in TierSet(T) : t.min_quantity <= q}
  IN (q >= 1 /\ reached # {}) =>
       /\ r.appliedTier \in reached
       /\ \A t \in reached : t.min_quantity <= r.appliedTier.min_quantity
       /\ r.unitPrice = IF r.appliedTier.discounted_unit_price # NULL
                        THEN r.appliedTier.discounted_unit_price
                        ELSE r.appliedTier.unit_price
       /\ r.totalPrice = r.unitPrice * q

CalculatorPrice(q) ==
  calculateApplicablePrice(q, viewedTiers, viewedPrice, viewedDiscountedPrice)

ModalPrice(q) ==
  calculateApplicablePrice(q, viewedTiers, OrElse(viewedPrice, 0), viewedDiscountedPrice)

\* the quantity reaches the threshold of some tier on view
MatchesTier(q) == \E t \in TierSet(viewedTiers) : t.min_quantity <= q

\* C14: when validateTiers accepts the tiers on view, the unit price shown
\* for the calculator's quantity is not exceeded by the unit price of any
\* larger quantity, both quantities matching a tier.
C14_Monotone ==
  (Len(viewedTiers) > 0 /\ validateTiers(viewedTiers) = <<>>) =>
    \A q2 \in (calculatorQuantity + 1)..MaxQuantity :
      (MatchesTier(calculatorQuantity) /\ MatchesTier(q2))
        => CalculatorPrice(q2).unitPrice <= calculatorResult.unitPrice

\* the fallback unit price: the discounted price when one is provided, 0
\* included, and the price otherwise
FallbackUnitPrice(basePrice, baseDiscountedPrice) ==
  IF baseDiscountedPrice # NULL THEN baseDiscountedPrice ELSE basePrice

\* r is the fallback result
IsFallback(r, basePrice, baseDiscountedPrice) ==
  /\ r.unitPrice = FallbackUnitPrice(basePrice, baseDiscountedPrice)
  /\ r.appliedTier = NullTier
  /\ r.savings = 0

\* C15: on an empty tier list, and on a quantity below every threshold, the
\* resolver returns the fallback unit price (the discounted price when
\* provided, 0 included, else the price), no applied tier and savings 0; on
\* an empty list nextTier is null as well.
C15_Fallback ==
  /\ LET r == calculateApplicablePrice(calculatorQuantity, <<>>, viewedPrice,
                                       viewedDiscountedPrice)
     IN IsFallback(r, viewedPrice, viewedDiscountedPrice) /\ r.nextTier = NullTier
  /\ (Len(viewedTiers) > 0 /\ ~MatchesTier(calculatorQuantity))
       => IsFallback(calculatorResult, viewedPrice, viewedDiscountedPrice)
  /\ (Len(viewedTiers) > 0 /\ ~MatchesTier(modalQuantity))
       => IsFallback(pricingInfo, OrElse(viewedPrice, 0), viewedDiscountedPrice)

\* C16: for a quantity of at least 1, tiers that validateTiers accepts and
\* fallback prices that are not negative, the savings shown are not negative.
C16_SavingsNotNegative ==
  (Len(viewedTiers) > 0 /\ validateTiers(viewedTiers) = <<>>) =>
    /\ calculatorQuantity >= 1 => calculatorResult.savings >= 0
    /\ modalQuantity >= 1 => pricingInfo.savings >= 0

NextByThreshold(r, q, T) ==
  LET above == {t \in TierSet(T) : t.min_quantity > q}
  IN IF above = {}
     THEN r.nextTier = NullTier /\ r.unitsToNextTier = 0
     ELSE /\ r.nextTier \in above
          /\ \A t \in above : r.nextTier.min_quantity <= t.min_quantity
          /\ r.unitsToNextTier = r.nextTier.min_quantity - q
          /\ r.unitsToNextTier >= 1

\* C18: the next tier of a result is the tier with the smallest threshold
\* above the quantity, or null when there is none; unitsToNextTier is that
\* threshold minus the quantity, at least 1, or 0 when there is none.
C18_NextTier ==
  /\ NextByThreshold(calculateApplicablePrice(calculatorQuantity, <<>>, viewedPrice,
                                              viewedDiscountedPrice),
                     calculatorQuantity, <<>>)
  /\ Len(viewedTiers) > 0 =>
       /\ NextByThreshold(calculatorResult, calculatorQuantity, viewedTiers)
       /\ NextByThreshold(pricingInfo, modalQuantity, viewedTiers)

\* the list comes with the higher threshold first and the quantity typed
\* into the calculator is below both thresholds: the next tier is the second
\* tier of the list
C18_Witness ==
  /\ Len(viewedTiers) = MaxTiers
  /\ calculatorQuantity > 1
  /\ viewedTiers[1].min_quantity > viewedTiers[2].min_quantity
  /\ calculatorQuantity < viewedTiers[2].min_quantity
  /\ calculatorResult.nextTier = viewedTiers[2]
  /\ calculatorResult.unitsToNextTier = 1

\* C19: a quantity below 1 is rejected or priced as quantity 1: a result a
\* storefront component shows is never one computed for a quantity below 1.
C19_QuantityAtLeastOne ==
  /\ calculatorQuantity < 1 =>
       calculatorResult = NoResult \/ calculatorResult = CalculatorPrice(1)
  /\ modalQuantity < 1 => pricingInfo = NoResult \/ pricingInfo = ModalPrice(1)

\* the pairs of positions of T whose inclusive ranges share a quantity
IntersectingPairs(T) ==
  {pair \in Positions(T) \X Positions(T) :
     pair[1] < pair[2] /\ Overlapping(T[pair[1]], T[pair[2]])}

\* the overlap errors among the errors of the manager
OverlapReports == {k \in Positions(errors) : errors[k].type = "overlap"}

\* C20: for every two tiers of the manager's list whose inclusive ranges
\* intersect (no max_quantity meaning no upper end), in whatever order the
\* list holds them, errors has an overlap error whose message names the
\* positions of both tiers in the sorted list, and there is one overlap error
\* per intersecting pair.
C20_OverlapExhaustive ==
  LET sortedTiers == SortByMinQuantity(priceTiers)
  IN /\ \A pair \in IntersectingPairs(priceTiers) :
          \E k \in OverlapReports :
            LET i == errors[k].message[2]
                j == errors[k].message[3]
            IN /\ i # j
               /\ i \in Positions(sortedTiers) /\ j \in Positions(sortedTiers)
               /\ \/ /\ sortedTiers[i] = priceTiers[pair[1]]
                      /\ sortedTiers[j] = priceTiers[pair[2]]
                  \/ /\ sortedTiers[i] = priceTiers[pair[2]]
                      /\ sortedTiers[j] = priceTiers[pair[1]]
     /\ Cardinality(OverlapReports) >= Cardinality(IntersectingPairs(priceTiers))

\* three tiers, the one that starts last given first, every two of them
\* intersecting
C20_Witness ==
  /\ Len(priceTiers) = MaxListed
  /\ priceTiers[1].min_quantity > priceTiers[MaxListed].min_quantity
  /\ Cardinality(IntersectingPairs(priceTiers)) = MaxListed
  /\ Cardinality(OverlapReports) = MaxListed

\* at most one tier of T has no max_quantity, and no tier of T starts above it
UnboundedIsLast(T) ==
  /\ Cardinality({i \in Positions(T) : T[i].max_quantity = NULL}) <= 1
  /\ \A i, j \in Positions(T) :
       T[i].max_quantity = NULL => T[j].min_quantity <= T[i].min_quantity

\* C21: a non-empty list that validateTiers accepts, or that a call of
\* update_product_price_tiers accepts and commits, has at most one tier
\* without max_quantity, and that tier has the greatest min_quantity of the
\* list, thresholds above 999999 included.
C21_UnboundedIsLast ==
  [][\A s \in Sessions :
       (CallStep(s) /\ pc'[s] = "idle" /\ p_tiers[s] # <<>>)
         => /\ validateTiers(p_tiers[s]) = <<>> => UnboundedIsLast(p_tiers[s])
            /\ result'[s] = "ok" => UnboundedIsLast(p_tiers[s])]_vars

\* the errors of the manager that say only one tier may be unlimited
UnlimitedReports ==
  {k \in Positions(errors) :
     errors[k].type = "invalid_max" /\ errors[k].message[1] = "one_unlimited"}

\* the tiers of the manager's list that have no max_quantity
UnlimitedTiers == {i \in Positions(priceTiers) : priceTiers[i].max_quantity = NULL}

\* C22: validateTiers reports the invalid_max error "only one tier may be
\* unlimited" exactly when two or more tiers of the list have no max_quantity.
C22_OneUnlimited == UnlimitedReports # {} <=> Cardinality(UnlimitedTiers) >= 2

\* two of three tiers are unlimited, the bounded one listed between them, and
\* the error is reported once, without a tier index
C22_Witness ==
  /\ Len(priceTiers) = MaxListed
  /\ UnlimitedTiers = {1, MaxListed}
  /\ priceTiers[1].min_quantity > priceTiers[MaxListed].min_quantity
  /\ Cardinality(UnlimitedReports) = 1
  /\ \A k \in UnlimitedReports : errors[k].tierIndex = NoIndex

\* C23: validateTiers does not depend on the order of the list it is given:
\* every reordering of the manager's list, lists where two tiers have the
\* same min_quantity included, yields the same errors, with the same types
\* and the same tier indices.
C23_OrderIndependent ==
  \A reordered \in Reorderings(priceTiers) : validateTiers(reordered) = errors

\* the mode being left holds data, as the pages report it to the toggle
HasDataInCurrentMode ==
  IF pricingMode = "simple" THEN price > 0 ELSE Len(priceTiers) > 0

\* the mode a request made now asks for
OtherMode == IF pricingMode = "simple" THEN "tiered" ELSE "simple"

\* the user flips the switch
ToggleRequested == \E checked \in BOOLEAN : handleToggle(checked)

\* what both modes hold in the form
ModeData == <<price, featured_offer_price, priceTiers>>

C25_CancelKeepsState ==
  [][/\ (cancelModeChange \/ setShowConfirmDialog(FALSE)) =>
          UNCHANGED <<pricingMode, ModeData>>
     /\ (ToggleRequested /\ showConfirmDialog') => UNCHANGED <<pricingMode, ModeData>>
     /\ (~showConfirmDialog /\ page' = page /\ pricingMode' # pricingMode) =>
          ToggleRequested /\ ~HasDataInCurrentMode
     /\ (showConfirmDialog /\ pricingMode' # pricingMode) =>
          pricingMode' = OtherMode /\ pendingMode = OtherMode]_vars

\* the dialog was dismissed and the mode has changed since: the pending mode
\* left behind is the mode the page is in
C25_Witness ==
  /\ page # "none" /\ pagePc = "form" /\ ~showConfirmDialog
  /\ pendingMode = pricingMode

\* C26: when a save ends well after a confirmed switch of the mode, a product
\* committed to simple mode has no tier row in the store, and a product
\* committed to tiered mode has its price and its promotional price cleared.
\* In tiered mode a price still in the form, in simple mode on the edit page
\* tiers still in the list, show that the switch was confirmed.
C26_SwitchClearsData ==
  [][(page # "none" /\ page' = "none") =>
       /\ (pricingMode = "tiered" /\ price > 0) =>
            /\ products'[pageProductId'].price = 0
            /\ products'[pageProductId'].featured_offer_price = NULL
       /\ (pricingMode = "simple" /\ page = "edit" /\ Len(priceTiers) > 0) =>
            ProductRows(rows', pageProductId') = {}]_vars

\* how many times the list T holds the tier t
Count(T, t) == Cardinality({i \in Positions(T) : T[i] = t})

\* the list After holds the tiers of Before with one tier out and one tier in
Exchanged(Before, After, out, in) ==
  \A t \in TierSet(Before) \cup TierSet(After) \cup {out, in} :
    Count(After, t) + (IF t = out THEN 1 ELSE 0)
      = Count(Before, t) + (IF t = in THEN 1 ELSE 0)

\* the list After holds the tiers of Before with one tier out
Removed(Before, After, out) ==
  \A t \in TierSet(Before) \cup TierSet(After) \cup {out} :
    Count(After, t) + (IF t = out THEN 1 ELSE 0) = Count(Before, t)

\* the rows of the manager's table: [...tiers].sort(by min_quantity).map
DisplayedRows == SortByMinQuantity(priceTiers)

\* C27: the manager shows its rows sorted by min_quantity, and on every list
\* that adding, editing and deleting produce, deleting the row displayed at
\* position k removes the tier shown in that row and no other, and saving an
\* edit of the row displayed at position k replaces the tier shown in that
\* row and no other.
C27_RowActsOnItsTier ==
  [][\A k \in 0..(MaxListed - 1) :
       /\ (k < Len(priceTiers) /\ handleDeleteTier(k)) =>
            /\ Len(priceTiers') = Len(priceTiers) - 1
            /\ Removed(priceTiers, priceTiers', DisplayedRows[k + 1])
       /\ \A editingTier \in EditingTiers :
            (k < Len(priceTiers) /\ handleSaveEdit(k, editingTier)
               /\ priceTiers' # priceTiers) =>
              /\ Len(priceTiers') = Len(priceTiers)
              /\ Exchanged(priceTiers, priceTiers', DisplayedRows[k + 1], editingTier)]_vars

\* a direct statement of another client commits a change
DirectCommit == rows' # rows /\ pc' = pc

\* C28: while a call of update_product_price_tiers has the trigger suspended,
\* no direct insert, update or delete of another client commits, for any
\* product; whenever one commits, the trigger is enabled for it and the
\* table it leaves passes the trigger's validation.
C28_NoBypass ==
  [][DirectCommit =>
       /\ trigger_enabled
       /\ \A s \in Sessions : tx_trigger[s] /\ table_lock # s
       /\ TriggerAccepts(rows')]_vars

\* the call on p1 has the trigger suspended; the rows of p2 were written by
\* direct statements
C28_Witness ==
  /\ pc["s1"] = "insert" /\ ~tx_trigger["s1"] /\ table_lock = "s1"
  /\ ProductRows(rows, "p2") # {}
  /\ ProductRows(rows, "p1") # {}

\* C29: for a product stored with price 0 and tiers the store accepts, every
\* quantity from 1 up chosen in the add-to-cart dialog, quantities below the
\* lowest min_quantity included, is added to the cart at a unit price above
\* 0 that is the unit price the dialog shows.
C29_CartPriceIsShownPrice ==
  [][(handleAddToCart /\ viewedPrice = 0 /\ Len(viewedTiers) > 0 /\ modalQuantity >= 1) =>
       /\ addedToCart'.unitPrice > 0
       /\ addedToCart'.unitPrice = displayedPrice]_vars

\* the tiers of T whose range min_quantity..max_quantity holds q, a tier
\* without max_quantity having no upper end
RangeMatches(T, q) ==
  {i \in Positions(T) :
     T[i].min_quantity <= q /\ (T[i].max_quantity = NULL \/ q <= T[i].max_quantity)}

\* matching by range inclusion: the tier whose range holds q, if any
MatchByRange(T, q) ==
  IF RangeMatches(T, q) = {} THEN NullTier
  ELSE T[CHOOSE i \in RangeMatches(T, q) : TRUE]

\* the tier found by threshold for q is the tier found by range inclusion
RulesAgree(r, q) == r.appliedTier = MatchByRange(viewedTiers, q)

\* C30 as stated: for every list validateTiers accepts and every quantity
\* from 1 up, the tier calculateApplicablePrice applies (the greatest
\* min_quantity not above the quantity) is the tier whose range holds the
\* quantity.
C30_MatchingRulesAgree ==
  (validateTiers(viewedTiers) = <<>> /\ Len(viewedTiers) > 0) =>
    /\ calculatorQuantity >= 1 => RulesAgree(calculatorResult, calculatorQuantity)
    /\ modalQuantity >= 1 => RulesAgree(pricingInfo, modalQuantity)

\* threshold and range inclusion agree on q, or no range holds q and the
\* threshold rule applies a bounded tier that ends below q
AgreeOrAboveLast(r, q) ==
  IF RangeMatches(viewedTiers, q) # {} THEN RulesAgree(r, q)
  ELSE /\ r.appliedTier # NullTier
       /\ r.appliedTier.max_quantity # NULL
       /\ r.appliedTier.max_quantity < q
       /\ \A i \in Positions(viewedTiers) :
            viewedTiers[i].min_quantity <= r.appliedTier.min_quantity

\* C30 amended: for every list validateTiers accepts and every quantity from
\* 1 up that the range of some tier holds, the tier applied by threshold is
\* the tier whose range holds the quantity; a quantity no range holds lies
\* above the max_quantity of a bounded last tier, and the threshold rule
\* applies that last tier.
C30_MatchingRulesAgreeInRange ==
  (validateTiers(viewedTiers) = <<>> /\ Len(viewedTiers) > 0) =>
    /\ calculatorQuantity >= 1 => AgreeOrAboveLast(calculatorResult, calculatorQuantity)
    /\ modalQuantity >= 1 => AgreeOrAboveLast(pricingInfo, modalQuantity)

\* two tiers that validateTiers accepts, given with the higher band first,
\* and a quantity in the higher band chosen in the modal
C30_Witness ==
  /\ Len(viewedTiers) = 2
  /\ validateTiers(viewedTiers) = <<>>
  /\ viewedTiers[1].min_quantity > viewedTiers[2].min_quantity
  /\ modalQuantity > viewedTiers[1].min_quantity
  /\ pricingInfo.appliedTier = viewedTiers[1]
  /\ RangeMatches(viewedTiers, modalQuantity) = {1}
====
